---------------------------- MODULE Spec2Model ----------------------------
(***************************************************************************)
(* A model of chainlink.py: the option layer (process_options and          *)
(* check_options), the frame conversion convert_ms_to_frames with the      *)
(* binary64 arithmetic Python performs, load_wav, and the per-recording    *)
(* loop of main.                                                           *)
(*                                                                         *)
(* Modelling assumptions about the libraries the script calls:             *)
(*   - os.listdir raises on a path that is not a directory;                *)
(*   - every directory entry is a regular file, so sndhdr.what returns a   *)
(*     header tuple or None and does not raise;                            *)
(*   - an uncaught exception ends the interpreter with a traceback and     *)
(*     exit status 1;                                                      *)
(*   - a Python float is an IEEE-754 binary64, rounded to nearest even.    *)
(***************************************************************************)
EXTENDS Integers, Sequences, FiniteSets

\* ------------------------------------------------------------------ bounds

\* Largest number of entries of the directory "in".
MaxFiles == 3

\* Cap on mandatory_checks: how many mandatory options a command line holds.
MaxChecks == 5

\* The conversion is explored for every framerate 1..MaxRate and StdRates.
MaxRate == 100

StdRates == {8000, 11025, 16000, 22050, 44100, 48000, 96000, 192000}

\* ----------------------------------------------------------- file system

\* What sndhdr.what and wave.open/wavio.read make of a directory entry.
GoodWav    == [hdr |-> "wav",  decodes |-> TRUE,  framerate |-> 44100]
CorruptWav == [hdr |-> "wav",  decodes |-> FALSE, framerate |-> 44100]
Aiff       == [hdr |-> "aiff", decodes |-> FALSE, framerate |-> 44100]
NoHdr      == [hdr |-> "none", decodes |-> FALSE, framerate |-> 44100]

Kinds == {GoodWav, CorruptWav, Aiff, NoHdr}

Listings == UNION {[1..n -> Kinds] : n \in 0..MaxFiles}

\* Directory arguments: "in" (any listing of at most MaxFiles entries, which
\* os.listdir reveals when check_options first reads it), "donor" (one
\* wav) and "missing" (no such directory).  Output arguments: "out" exists,
\* "new" does not and can be made, "locked" does not and cannot be made.
DirArgs == {"in", "donor", "missing"}
OutArgs == {"out", "new", "locked"}

VARIABLES
    listing,           \* what os.listdir returns for "in"; <<>> until it is read
    dirs_made,         \* directories os.makedirs has created
    pc,                \* "getopt", "options", "check", "main", "exit", "done"
    assigned,          \* the mandatory locals process_options has bound
    input_dir1, input_dir2, output_dir, chunk_size,
    is_verbose, is_mp, cores,
    mandatory_checks,
    supplied,          \* the options the loop of process_options has seen
    usage_printed,     \* print(usage) has run
    crashed,           \* the uncaught exception that ended the run, or "none"
    exit_status,       \* <<>> while running, <<n>> once the process has ended
    ended_in,          \* the function in which the process ended, or "none"
    idx,               \* position of main's loop in os.listdir(input_dir1)
    inprog,            \* recordings loaded and not yet converted
    loaded,            \* positions load_wav was called for, in order
    processed,         \* positions whose frame conversion finished, in order
    wv_framerate, chunk_size_frms,
    written            \* positions an output wav was written for

vars == <<listing, dirs_made, pc, assigned, input_dir1, input_dir2, output_dir,
          chunk_size, is_verbose, is_mp, cores, mandatory_checks, supplied,
          usage_printed, crashed, exit_status, ended_in, idx, inprog, loaded,
          processed, wv_framerate, chunk_size_frms, written>>

optvars == <<assigned, input_dir1, input_dir2, output_dir, chunk_size,
             is_verbose, is_mp, cores, mandatory_checks, supplied>>

mainvars == <<idx, inprog, loaded, processed, wv_framerate, chunk_size_frms,
              written>>

isdir(d) == d \in {"in", "donor", "out"} \cup dirs_made

\* os.listdir(d) when "in" holds the entries l.
ListDir(d, l) == IF d = "in" THEN l
                 ELSE IF d = "donor" THEN <<GoodWav>>
                 ELSE <<>>

listdir(d) == ListDir(d, listing)

\* ------------------------------------------------------ binary64 arithmetic

(***************************************************************************)
(* A positive binary64 is held as [lead, hi, lo, j], of value              *)
(*     (lead * 2^52 + hi * 2^26 + lo) * 2^-(52 + j),                       *)
(* so that no intermediate exceeds 31 bits: hi and lo are 26-bit halves of *)
(* the 52 fraction bits and products are taken 13 bits at a time.  The     *)
(* multiplication is exact for every integer factor below 2^18.            *)
(***************************************************************************)
Limb == 2^13
Half26 == 2^26

\* The j with 1000 <= n * 2^j < 2000: the binary exponent of n / 1000.0.
NormShift(n) == CHOOSE j \in 0..10 : 1000 <= n * 2^j /\ n * 2^j < 2000

\* One step of the long division by 1000: the next 13 quotient bits.
DivStep(rem) == [d |-> (rem * Limb) \div 1000, r |-> (rem * Limb) % 1000]

\* Round to nearest, ties to even: whether to add one unit to the kept bits.
RoundUp(rest, half, kept) == rest > half \/ (rest = half /\ kept % 2 = 1)

\* n / 1000.0 for an integer 1 <= n < 2000, as Python's float division.
FloatDiv1000(n) ==
    LET j  == NormShift(n)
        s1 == DivStep(n * 2^j - 1000)
        s2 == DivStep(s1.r)
        s3 == DivStep(s2.r)
        s4 == DivStep(s3.r)
        hi == s1.d * Limb + s2.d
        lo == s3.d * Limb + s4.d
        up == RoundUp(2 * s4.r, 1000, lo)
        lo1 == IF up THEN (lo + 1) % Half26 ELSE lo
        c1  == up /\ lo + 1 = Half26
        hi1 == IF c1 THEN (hi + 1) % Half26 ELSE hi
        c2  == c1 /\ hi + 1 = Half26
    IN  [lead |-> IF c2 THEN 2 ELSE 1, hi |-> hi1, lo |-> lo1, j |-> j]

\* Number of bits of n >= 1.
BitLen(n) == CHOOSE b \in 1..31 : 2^(b - 1) <= n /\ (b = 31 \/ n < 2^b)

\* k * q for an integer 1 <= k < 2^18, as Python's int * float: the exact
\* product rounded to 53 significant bits.
FloatMulInt(k, q) ==
    LET t4 == k * (q.lo % Limb)
        t3 == k * (q.lo \div Limb) + (t4 \div Limb)
        t2 == k * (q.hi % Limb) + (t3 \div Limb)
        t1 == k * (q.hi \div Limb) + (t2 \div Limb)
        T  == k * q.lead + (t1 \div Limb)
        hi == (t1 % Limb) * Limb + (t2 % Limb)
        lo == (t3 % Limb) * Limb + (t4 % Limb)
        t  == BitLen(T) - 1
        kept == lo \div 2^t
        up == IF t = 0 THEN FALSE ELSE RoundUp(lo % 2^t, 2^(t - 1), kept)
        kept1 == IF up THEN (kept + 1) % 2^(26 - t) ELSE kept
        c1  == up /\ kept + 1 = 2^(26 - t)
        hi1 == IF c1 THEN (hi + 1) % Half26 ELSE hi
        c2  == c1 /\ hi + 1 = Half26
    IN  [lead |-> IF c2 THEN T + 1 ELSE T, hi |-> hi1, lo |-> kept1 * 2^t,
         j |-> q.j]

\* int(x) of a positive float: truncation.
FloatToInt(x) == x.lead \div 2^(x.j)

\* Python 2's chunk_size_ms / 1000 on integers: the quotient is floored first.
convert_ms_to_frames_intdiv(chunk_size_ms, framerate) ==
    framerate * (chunk_size_ms \div 1000)

\* int(framerate * (chunk_size_ms / 1000.0))
convert_ms_to_frames(chunk_size_ms, framerate) ==
    FloatToInt(FloatMulInt(framerate, FloatDiv1000(chunk_size_ms)))

\* ------------------------------------------------------------ command line

\* The argument of --chunk_size as the characters typed.
ChunkTexts == {<<"9">>, <<"1", "0">>, <<"3", "5", "0">>, <<"1", "0", "0", "0">>,
               <<"1", "0", "0", "1">>, <<"-", "5">>, <<"a", "b", "c">>}

DigitChars == <<"0", "1", "2", "3", "4", "5", "6", "7", "8", "9">>

IsDigit(c) == \E d \in 1..10 : DigitChars[d] = c

DigitVal(c) == (CHOOSE d \in 1..10 : DigitChars[d] = c) - 1

RECURSIVE DecimalVal(_)
DecimalVal(t) == IF t = <<>> THEN 0
                 ELSE 10 * DecimalVal(SubSeq(t, 1, Len(t) - 1)) + DigitVal(t[Len(t)])

AllDigits(t) == t # <<>> /\ \A i \in 1..Len(t) : IsDigit(t[i])

\* int(arg): [ok |-> FALSE] stands for the ValueError int() raises.
ParseInt(t) ==
    IF AllDigits(t) THEN [ok |-> TRUE, val |-> DecimalVal(t)]
    ELSE IF t # <<>> /\ t[1] = "-" /\ AllDigits(Tail(t))
         THEN [ok |-> TRUE, val |-> 0 - DecimalVal(Tail(t))]
         ELSE [ok |-> FALSE, val |-> 0]

Mandatory == {"--input1", "--input2", "--output", "--chunk_size"}
MandatoryLocals == {"input_dir1", "input_dir2", "output_dir", "chunk_size"}

\* ------------------------------------------------------------------- start

Init ==
    /\ listing = <<>>
    /\ dirs_made = {}
    /\ pc = "getopt"
    /\ assigned = {}
    /\ input_dir1 = ""
    /\ input_dir2 = ""
    /\ output_dir = ""
    /\ chunk_size = 0
    /\ is_verbose = FALSE
    /\ is_mp = FALSE
    /\ cores = [py |-> "int", text |-> "2"]
    /\ mandatory_checks = 0
    /\ supplied = {}
    /\ usage_printed = FALSE
    /\ crashed = "none"
    /\ exit_status = <<>>
    /\ ended_in = "none"
    /\ idx = 1
    /\ inprog = {}
    /\ loaded = <<>>
    /\ processed = <<>>
    /\ wv_framerate = 0
    /\ chunk_size_frms = 0
    /\ written = {}

\* The process ends in function fn with the given status; exc names the
\* uncaught exception, "none" for sys.exit or a normal end.
Exit(status, fn, exc, usage) ==
    /\ pc' = "exit"
    /\ exit_status' = <<status>>
    /\ ended_in' = fn
    /\ crashed' = exc
    /\ usage_printed' = usage

Running == UNCHANGED <<usage_printed, crashed, exit_status, ended_in>>

\* --------------------------------------------------------- process_options

\* getopt.getopt rejects an unknown option or a missing argument.
GetoptError ==
    /\ pc = "getopt"
    /\ Exit(1, "process_options", "GetoptError", FALSE)
    /\ UNCHANGED <<listing, dirs_made, optvars, mainvars>>

GetoptOk ==
    /\ pc = "getopt"
    /\ pc' = "options"
    /\ Running
    /\ UNCHANGED <<listing, dirs_made, optvars, mainvars>>

OptInput1 ==
    /\ pc = "options"
    /\ mandatory_checks < MaxChecks
    /\ \E arg \in DirArgs : input_dir1' = arg
    /\ assigned' = assigned \cup {"input_dir1"}
    /\ mandatory_checks' = mandatory_checks + 1
    /\ supplied' = supplied \cup {"--input1"}
    /\ Running
    /\ UNCHANGED <<listing, dirs_made, pc, input_dir2, output_dir, chunk_size,
                   is_verbose, is_mp, cores, mainvars>>

OptInput2 ==
    /\ pc = "options"
    /\ mandatory_checks < MaxChecks
    /\ \E arg \in DirArgs : input_dir2' = arg
    /\ assigned' = assigned \cup {"input_dir2"}
    /\ mandatory_checks' = mandatory_checks + 1
    /\ supplied' = supplied \cup {"--input2"}
    /\ Running
    /\ UNCHANGED <<listing, dirs_made, pc, input_dir1, output_dir, chunk_size,
                   is_verbose, is_mp, cores, mainvars>>

OptOutput ==
    /\ pc = "options"
    /\ mandatory_checks < MaxChecks
    /\ \E arg \in OutArgs : output_dir' = arg
    /\ assigned' = assigned \cup {"output_dir"}
    /\ mandatory_checks' = mandatory_checks + 1
    /\ supplied' = supplied \cup {"--output"}
    /\ Running
    /\ UNCHANGED <<listing, dirs_made, pc, input_dir1, input_dir2, chunk_size,
                   is_verbose, is_mp, cores, mainvars>>

\* chunk_size = int(arg), which raises ValueError on a non-integer text.
OptChunkSize ==
    /\ pc = "options"
    /\ mandatory_checks < MaxChecks
    /\ \E arg \in ChunkTexts :
         LET n == ParseInt(arg)
         IN  IF n.ok
             THEN /\ chunk_size' = n.val
                  /\ assigned' = assigned \cup {"chunk_size"}
                  /\ mandatory_checks' = mandatory_checks + 1
                  /\ Running
                  /\ UNCHANGED pc
             ELSE /\ Exit(1, "process_options", "ValueError", FALSE)
                  /\ UNCHANGED <<chunk_size, assigned, mandatory_checks>>
    /\ supplied' = supplied \cup {"--chunk_size"}
    /\ UNCHANGED <<listing, dirs_made, input_dir1, input_dir2, output_dir,
                   is_verbose, is_mp, cores, mainvars>>

OptVerbose ==
    /\ pc = "options"
    /\ is_verbose' = TRUE
    /\ supplied' = supplied \cup {"-v"}
    /\ Running
    /\ UNCHANGED <<listing, dirs_made, pc, assigned, input_dir1, input_dir2,
                   output_dir, chunk_size, is_mp, cores, mandatory_checks,
                   mainvars>>

OptMp ==
    /\ pc = "options"
    /\ is_mp' = TRUE
    /\ supplied' = supplied \cup {"-m"}
    /\ Running
    /\ UNCHANGED <<listing, dirs_made, pc, assigned, input_dir1, input_dir2,
                   output_dir, chunk_size, is_verbose, cores, mandatory_checks,
                   mainvars>>

\* cores = arg: the text of the argument, not a number.
OptCores ==
    /\ pc = "options"
    /\ cores' = [py |-> "str", text |-> "4"]
    /\ supplied' = supplied \cup {"-c"}
    /\ Running
    /\ UNCHANGED <<listing, dirs_made, pc, assigned, input_dir1, input_dir2,
                   output_dir, chunk_size, is_verbose, is_mp, mandatory_checks,
                   mainvars>>

OptHelp ==
    /\ pc = "options"
    /\ supplied' = supplied \cup {"-h"}
    /\ Exit(0, "process_options", "none", TRUE)
    /\ UNCHANGED <<listing, dirs_made, assigned, input_dir1, input_dir2,
                   output_dir, chunk_size, is_verbose, is_mp, cores,
                   mandatory_checks, mainvars>>

\* The test that lets process_options go on to check_options.
MandatoryOk == mandatory_checks = 4

\* The loop is over: the mandatory count is tested, then the arguments of the
\* call of check_options are read, which raises on an unbound local.
EndOptions ==
    /\ pc = "options"
    /\ IF ~MandatoryOk
       THEN Exit(1, "process_options", "none", TRUE)
       ELSE IF assigned # MandatoryLocals
            THEN Exit(1, "process_options", "UnboundLocalError", FALSE)
            ELSE pc' = "check" /\ Running
    /\ UNCHANGED <<listing, dirs_made, optvars, mainvars>>

\* ----------------------------------------------------------- check_options

\* hdr is not None and hdr[0] == 'wav', with any recognised sound taken for one.
IsWav_anyhdr(e) == e.hdr # "none"

\* hdr is not None and hdr[0] == 'wav'
IsWav(e) == e.hdr # "none" /\ e.hdr = "wav"

\* The for/else scan over a directory's entries: some entry is a wav.
HasWav(entries) == \E i \in 1..Len(entries) : IsWav(entries[i])

\* The range test with its lower limit off by one.
ChunkSizeInvalid_excl(n) == (n <= 10) \/ (n > 1000)

\* (chunk_size < 10) or (chunk_size > 1000); int(arg) is always an integer.
ChunkSizeInvalid(n) == (n < 10) \/ (n > 1000)

\* os.makedirs(output_dir) succeeds.
CanMake(d) == d = "new"

\* os.listdir raises on a missing directory before the usage text is printed;
\* otherwise every finding sets is_invalid, and usage is printed once at the end.
CheckOptions ==
    /\ pc = "check"
    /\ listing' \in IF "in" \in {input_dir1, input_dir2} THEN Listings ELSE {<<>>}
    /\ IF ~isdir(input_dir1) \/ ~isdir(input_dir2)
       THEN /\ Exit(1, "check_options", "OSError", FALSE)
            /\ UNCHANGED dirs_made
       ELSE LET made == ~isdir(output_dir) /\ CanMake(output_dir)
                is_invalid == \/ ~HasWav(ListDir(input_dir1, listing'))
                              \/ ~HasWav(ListDir(input_dir2, listing'))
                              \/ (~isdir(output_dir) /\ ~CanMake(output_dir))
                              \/ ChunkSizeInvalid(chunk_size)
            IN  /\ dirs_made' = IF made THEN dirs_made \cup {output_dir}
                                ELSE dirs_made
                /\ IF is_invalid
                   THEN Exit(1, "check_options", "none", TRUE)
                   ELSE pc' = "main" /\ Running
    /\ UNCHANGED <<optvars, mainvars>>

\* -------------------------------------------------------------------- main

Target == listdir(input_dir1)

\* load_wav(join(input_dir1, f)) returns for position i.
LoadRecording(i) ==
    /\ i \in 1..Len(Target)
    /\ IsWav(Target[i])
    /\ Target[i].decodes
    /\ idx' = i
    /\ inprog' = inprog \cup {i}
    /\ loaded' = Append(loaded, i)
    /\ wv_framerate' = Target[i].framerate
    /\ pc' = "loaded"
    /\ Running
    /\ UNCHANGED <<listing, dirs_made, optvars, processed, chunk_size_frms,
                   written>>

\* A pool that hands out the next recording while one is still in progress.
MainLoad_mp ==
    \/ pc = "main" /\ LoadRecording(idx)
    \/ pc = "loaded" /\ is_mp /\ LoadRecording(idx + 1)

MainLoad == pc = "main" /\ LoadRecording(idx)

\* wave.open or wavio.read raises inside load_wav; main catches nothing.
MainLoadFail ==
    /\ pc = "main"
    /\ idx \in 1..Len(Target)
    /\ IsWav(Target[idx])
    /\ ~Target[idx].decodes
    /\ loaded' = Append(loaded, idx)
    /\ Exit(1, "main", "wave.Error", FALSE)
    /\ UNCHANGED <<listing, dirs_made, optvars, idx, inprog, processed,
                   wv_framerate, chunk_size_frms, written>>

\* The rest of the loop body: the conversion and the prints.
MainConvert ==
    /\ pc = "loaded"
    /\ chunk_size_frms' = convert_ms_to_frames(chunk_size, wv_framerate)
    /\ processed' = Append(processed, idx)
    /\ inprog' = inprog \ {idx}
    /\ idx' = idx + 1
    /\ pc' = "main"
    /\ Running
    /\ UNCHANGED <<listing, dirs_made, optvars, loaded, wv_framerate, written>>

\* hdr is None, or the else: continue.
MainSkip ==
    /\ pc = "main"
    /\ idx \in 1..Len(Target)
    /\ ~IsWav(Target[idx])
    /\ idx' = idx + 1
    /\ Running
    /\ UNCHANGED <<listing, dirs_made, pc, optvars, inprog, loaded, processed,
                   wv_framerate, chunk_size_frms, written>>

\* The loop is over and the script ends; write_wav was never called.
MainEnd ==
    /\ pc = "main"
    /\ idx > Len(Target)
    /\ pc' = "done"
    /\ exit_status' = <<0>>
    /\ ended_in' = "main"
    /\ UNCHANGED <<listing, dirs_made, optvars, mainvars, usage_printed,
                   crashed>>

Next ==
    \/ GetoptError
    \/ GetoptOk
    \/ OptInput1
    \/ OptInput2
    \/ OptOutput
    \/ OptChunkSize
    \/ OptVerbose
    \/ OptMp
    \/ OptCores
    \/ OptHelp
    \/ EndOptions
    \/ CheckOptions
    \/ MainLoad
    \/ MainLoadFail
    \/ MainConvert
    \/ MainSkip
    \/ MainEnd

Spec == Init /\ [][Next]_vars

\* ------------------------------------------- the conversion on its own

Rates == (1..MaxRate) \cup StdRates

\* main at the head of its loop after a valid command line, with one
\* recording of any rate in the target directory and any valid chunk size.
InitConv ==
    /\ \E r \in Rates :
         listing = <<[hdr |-> "wav", decodes |-> TRUE, framerate |-> r]>>
    /\ chunk_size \in 10..1000
    /\ dirs_made = {}
    /\ pc = "main"
    /\ assigned = MandatoryLocals
    /\ input_dir1 = "in"
    /\ input_dir2 = "donor"
    /\ output_dir = "out"
    /\ is_verbose = FALSE
    /\ is_mp = FALSE
    /\ cores = [py |-> "int", text |-> "2"]
    /\ mandatory_checks = 4
    /\ supplied = Mandatory
    /\ usage_printed = FALSE
    /\ crashed = "none"
    /\ exit_status = <<>>
    /\ ended_in = "none"
    /\ idx = 1
    /\ inprog = {}
    /\ loaded = <<>>
    /\ processed = <<>>
    /\ wv_framerate = 0
    /\ chunk_size_frms = 0
    /\ written = {}

NextConv == MainLoad \/ MainConvert \/ MainEnd

SpecConv == InitConv /\ [][NextConv]_vars

\* ================================================================== claims

Range(q) == {q[k] : k \in 1..Len(q)}

StrictlyIncreasing(q) == \A a, b \in 1..Len(q) : a < b => q[a] < q[b]

\* check_options returned normally: control is in main or beyond.
PastCheck == pc \in {"main", "loaded", "done"} \/ (pc = "exit" /\ ended_in = "main")

\* The process ended inside check_options.
CheckEnded == pc = "exit" /\ ended_in = "check_options"

\* check_options was called and is over.
CheckCalled == PastCheck \/ CheckEnded

\* The process ended inside process_options or check_options.
OptionLayerEnded == pc = "exit" /\ ended_in \in {"process_options", "check_options"}

DirExists(d) == d \in {"in", "donor"}

ContainsWav(d) == \E i \in 1..Len(listdir(d)) : listdir(d)[i].hdr = "wav"

ChunkInRange == chunk_size \in 10..1000

\* Position i of the target directory holds a file recognised as wav.
WavAt(i) == Target[i].hdr = "wav"

\* C1: in every conversion main performs, for a chunk size in 10..1000 and a
\* framerate > 0, the chunk length equals floor(framerate * chunk_size_ms /
\* 1000) taken in exact integer arithmetic.
C1_ExactFloor ==
    processed # <<>> =>
        chunk_size_frms = (wv_framerate * chunk_size) \div 1000

\* C2: whenever check_options has run on a configuration error (an input
\* directory that does not exist, an input directory without a wav, a chunk
\* size out of range), it printed the usage text and ended the run, and no
\* recording was loaded or converted.
C2_ConfigErrorsPrintUsage ==
    (/\ CheckCalled
     /\ \/ ~DirExists(input_dir1)
        \/ ~DirExists(input_dir2)
        \/ ~ContainsWav(input_dir1)
        \/ ~ContainsWav(input_dir2)
        \/ ~ChunkInRange)
    => (/\ CheckEnded
        /\ usage_printed
        /\ loaded = <<>>
        /\ processed = <<>>)

\* The options other than the chunk size are valid.
OthersValid ==
    /\ DirExists(input_dir1) /\ ContainsWav(input_dir1)
    /\ DirExists(input_dir2) /\ ContainsWav(input_dir2)
    /\ output_dir \in {"out", "new"}

\* C3: with all other options valid, check_options returns normally if and
\* only if the chunk size is in 10..1000; otherwise it ends the run with
\* status 1 before main has loaded any recording.
C3_ChunkSizeRange ==
    (CheckCalled /\ OthersValid) =>
        IF ChunkInRange
        THEN PastCheck
        ELSE CheckEnded /\ exit_status = <<1>> /\ loaded = <<>>

\* The lower limit 10 was accepted and main has loaded a recording.
C3_Witness ==
    PastCheck /\ OthersValid /\ chunk_size = 10 /\ loaded # <<>>

\* C4: a recording whose decode fails does not abort the run: whenever main
\* has ended, it ended normally and every decodable wav of the target
\* directory was processed.
C4_FailureIsolated ==
    (pc \in {"exit", "done"} /\ ended_in = "main") =>
        /\ crashed = "none"
        /\ \A i \in 1..Len(Target) :
             (WavAt(i) /\ Target[i].decodes) => i \in Range(processed)

\* C5: when a run with valid options completes, exactly one output file has
\* been written for each wav of the target directory.
C5_OneOutputPerTarget ==
    pc = "done" => written = {i \in 1..Len(Target) : WavAt(i)}

\* The option layer is over: it ended the process or returned to main.
OptionLayerOver == OptionLayerEnded \/ PastCheck

AllSupplied == Mandatory \subseteq supplied

\* Every option given is valid: getopt and int() accepted the command line,
\* the four mandatory options are there, and their values pass validation.
OptionsValid ==
    /\ crashed \notin {"GetoptError", "ValueError"}
    /\ AllSupplied
    /\ assigned = MandatoryLocals
    /\ OthersValid
    /\ ChunkInRange

\* C6: the option layer ends the process with status 0 when -h is requested,
\* with status 1 when a mandatory option is missing or a validation check
\* fails, and not at all when every option is supplied and valid.
C6_ExitStatuses ==
    /\ OptionLayerEnded => exit_status \in {<<0>>, <<1>>}
    /\ "-h" \in supplied => (OptionLayerEnded /\ exit_status = <<0>>)
    /\ (OptionLayerOver /\ "-h" \notin supplied /\ ~OptionsValid)
       => (OptionLayerEnded /\ exit_status = <<1>>)
    /\ (OptionLayerOver /\ "-h" \notin supplied /\ OptionsValid)
       => PastCheck

LoopCompleted ==
    /\ pc \notin {"getopt", "options"}
    /\ "-h" \notin supplied
    /\ crashed \notin {"GetoptError", "ValueError"}

ReachedCheck == pc = "check" \/ CheckCalled

\* C9: process_options reaches check_options if and only if each of the four
\* mandatory options was supplied at least once; the four locals are then
\* assigned, and otherwise the run ends with status 1.
C9_CheckIffAllSupplied ==
    LoopCompleted =>
        /\ ReachedCheck <=> AllSupplied
        /\ ReachedCheck => assigned = MandatoryLocals
        /\ ~ReachedCheck => exit_status = <<1>>

\* C10, as stated: every conversion main performs for a validated chunk
\* size and a framerate >= 1 yields a chunk length > 0.
C10_AlwaysPositive ==
    processed # <<>> => chunk_size_frms > 0

\* C10, amended: the chunk length is > 0 exactly when framerate *
\* chunk_size_ms >= 1000 (so for every framerate >= 100 Hz), and is 0 below.
C10_PositiveFromOneFrame ==
    processed # <<>> =>
        /\ chunk_size_frms >= 0
        /\ chunk_size_frms > 0 <=> wv_framerate * chunk_size >= 1000

\* The smallest product that gives one frame: 100 Hz and 10 ms.
C10_Witness ==
    /\ processed # <<>>
    /\ wv_framerate = 100
    /\ chunk_size = 10
    /\ chunk_size_frms = 1

=============================================================================
